---- MODULE Spec2Model ----
(***************************************************************************)
(* State-machine model of src/hot-reload.ts (class HotReload and the      *)
(* taskQueue function).  One action per handler / continuation: every     *)
(* action is the synchronous code that runs between two awaits.           *)
(***************************************************************************)
EXTENDS Integers, Sequences, FiniteSets, Bags, TLC

----------------------------------------------------------------------------
(* Bounds of the model: the environment's budget.                          *)

\* raw file events
MaxEvents == 2
\* invocations of the "scan-for-changes" command
MaxCmd == 2
\* writes to tracked files (each gives the file another modification time)
MaxTouch == 2
\* uninstall / install operations of the host
MaxInstall == 2
\* modification times are 1..MaxTime
MaxTime == 2

----------------------------------------------------------------------------
(* The host's world: two extensions.  "a" lives in a directory named like  *)
(* its id, "b" in a directory whose name differs from its id.              *)

Plugins == {"a", "b"}
Order == <<"a", "b">>
NoId == "-"
DirName(p) == IF p = "a" THEN "a" ELSE "bdir"

\* getPluginFolder(), split at "/"
PluginFolder == <<"cfg", "plugins">>
\* manifests[p].dir, split at "/"
ManifestDir(p) == PluginFolder \o <<DirName(p)>>

\* the two tracked files of checkVersion, in loop order
TrackedFiles == <<"main.js", "styles.css">>
CachePaths == {ManifestDir(p) \o <<TrackedFiles[i]>> : p \in Plugins, i \in 1..2}

\* keys that pluginNames is ever read, written or deleted at
Keys == {DirName(p) : p \in Plugins} \cup Plugins \cup {"zzz", ""}

MTimes == 1..MaxTime
\* 0 stands for "no stat" (file absent) and for "no cache entry"
NoStat == 0

\* keys of the debouncers: one per extension reloader, one for reindexPlugins
Reindex == "reindexPlugins"
DebKeys == Plugins \cup {Reindex}

VARIABLES
    \* ---- host / environment
    manifests,      \* app.plugins.manifests: ids currently installed
    hostEnabled,    \* app.plugins.enabledPlugins
    loaded,         \* extensions the host currently has running
    marker,         \* ids whose directory holds .git or .hotreload
    mtime,          \* modification time per tracked path (NoStat: absent)
    debugFlag,      \* localStorage "debug-plugin"
    activeTab,      \* app.setting.activeTab id, or "null"
    leading,        \* TRUE: debounce fires on the leading edge, FALSE: trailing
    watchNeeded,    \* !Platform.isMacOS && !Platform.isWin
    watchers,       \* app.vault.adapter.watchers: per path, whether the host
                    \* watches it and the startWatchPath calls made for it
    \* ---- HotReload fields
    phase,          \* "init", "scan", "settings", "ready" (onload / onLayoutReady)
    settings,       \* [loaded, reopen, notice]; loaded is FALSE before loadSettings
    statCache,      \* path -> mtime (NoStat: no entry)
    pluginNames,    \* directory name -> id (NoId: no entry)
    enabledPlugins, \* ids opted into auto reload
    pluginReloaders,\* ids with a debounced reloader
    deb,            \* debouncer state per key: "idle" or "wait"
    tasks,          \* everything submitted to run(), in submission order
    startup,        \* the getPluginNames() call of onLayoutReady
    checks,         \* bag of checkVersion calls suspended at "await stat"
    watching,       \* watch() calls suspended at "await stat", per path
    \* ---- budget and observation
    scenario,       \* which part of its budget the environment may spend
    budget,         \* [ev, cmd, touch, inst, host]: what the environment may still do
    stored,         \* the settings loadData() will return
    debug0,         \* debugFlag of the initial state
    obs             \* what the last step did (for the properties)

envVars == <<manifests, hostEnabled, loaded, marker, mtime, debugFlag, activeTab,
            leading, watchNeeded, watchers>>
progVars == <<phase, settings, statCache, pluginNames, enabledPlugins,
              pluginReloaders, deb, tasks, startup, checks, watching>>
vars == <<envVars, progVars, scenario, budget, stored, debug0, obs>>

----------------------------------------------------------------------------
(* Helpers                                                                 *)

SeqOf(S) == SelectSeq(Order, LAMBDA x : x \in S)
Range(f) == {f[x] : x \in DOMAIN f}
Last(s) == s[Len(s)]
Front(s) == SubSeq(s, 1, Len(s) - 1)

EmptyNames == [k \in Keys |-> NoId]
EmptyCache == [c \in CachePaths |-> NoStat]

Min(x, y) == IF x < y THEN x ELSE y

\* what the last step did: the branch onFileChange took and its path, the ids
\* whose "deleted plugin" branch ran, the comparison checkVersion made, the ids
\* requestReload was called with, the debouncers whose callback ran, what
\* reload found when enablePlugin had returned
ObsNone == [route |-> "-", path |-> <<>>, gone |-> {}, cmp |-> <<>>, req |-> {},
            fired |-> {}, panel |-> <<>>]

----------------------------------------------------------------------------
(* taskQueue(): run(action) chains a new promise on `last`.                *)

\* all: the ids Object.values(manifests) gave when the scan began
ScanIdle == [todo |-> <<>>, plugins |-> EmptyNames, enabled |-> {}, pc |-> "idle",
             all |-> {}]

\* the action a debouncer wraps: () => this.run(() => ...)
NewTask(k) ==
    [kind   |-> IF k = Reindex THEN "rescan" ELSE "reload",
     plugin |-> IF k = Reindex THEN NoId ELSE k,
     st     |-> "queued",      \* queued, running, ok (fulfilled), err (rejected)
     pc     |-> "-",           \* reload: the host call it awaits
     tab    |-> FALSE,         \* reload: isSettingTabActive
     old    |-> "null",        \* reload: oldDebug
     set    |-> FALSE,         \* reload: has written the debug flag
     restores |-> 0,           \* reload: runs of the finally block
     calls  |-> <<>>,          \* reload: host calls made so far
     scan   |-> ScanIdle]      \* rescan: locals of getPluginNames

\* run(action): last = new Promise(... last.finally(...))
Run(t, k) == Append(t, NewTask(k))

Settled(task) == task.st \in {"ok", "err"}

\* slot i starts as soon as it is submitted (no chaining on `last`)
CanStartNoWait(t, i) == t[i].st = "queued"

\* slot i starts once the slot before it has started (chained on its start,
\* not on its settlement)
CanStartOverlap(t, i) ==
    /\ t[i].st = "queued"
    /\ IF i = 1 THEN TRUE ELSE t[i - 1].st # "queued"

\* last.then(...) for last.finally(...): a rejection is never followed
CanStartThen(t, i) ==
    /\ t[i].st = "queued"
    /\ IF i = 1 THEN TRUE ELSE t[i - 1].st = "ok"

\* last.finally(() => ...action()...): the callback of slot i runs once the
\* promise before it has settled, whichever way
CanStart(t, i) ==
    /\ t[i].st = "queued"
    /\ IF i = 1 THEN TRUE ELSE Settled(t[i - 1])

\* tasks submitted by the debouncer of key k
TasksOf(t, k) ==
    {i \in 1..Len(t) : /\ t[i].kind = (IF k = Reindex THEN "rescan" ELSE "reload")
                       /\ t[i].plugin = (IF k = Reindex THEN NoId ELSE k)}

----------------------------------------------------------------------------
(* debounce(cb, ms, true) of the host library.  Its code is not part of    *)
(* the repository; the two usual semantics are both allowed: `leading`     *)
(* (the callback runs on the first call, later calls in the window do      *)
(* nothing) and trailing (the callback runs when the timer expires).  In   *)
(* both a call restarts the timer; time is abstract, the timer expires at  *)
(* any later step.  calls and base are bookkeeping: the calls of the       *)
(* current window (capped at 2) and the tasks of this key when it opened.  *)

DebIdle == [st |-> "idle", calls |-> 0, base |-> 0]

\* calling the debounced function of key k: the debouncer afterwards
DebCallDeb(d, t, k) ==
    IF d[k].st = "idle"
    THEN [d EXCEPT ![k] = [st |-> "wait", calls |-> 1, base |-> Cardinality(TasksOf(t, k))]]
    ELSE [d EXCEPT ![k].calls = Min(2, @ + 1)]

\* a debouncer that forgets its cooldown
DebCallFiresAlways(d, k) == leading

\* does this call run the callback at once
DebCallFires(d, k) == leading /\ d[k].st = "idle"

\* calling the debounced function of key k: the task queue afterwards
DebCallTasks(d, t, k) == IF DebCallFires(d, k) THEN Run(t, k) ELSE t

----------------------------------------------------------------------------
(* onFileChange: the branch taken, by the code's own tests                 *)

StartsWithFolder(filename) ==
    /\ Len(filename) > Len(PluginFolder)
    /\ SubSeq(filename, 1, Len(PluginFolder)) = PluginFolder

Lookup(names, dir) == IF dir \in DOMAIN names THEN names[dir] ELSE NoId

\* the file name is tested before the directory is looked up
RouteNameFirst(filename, names) ==
    IF ~StartsWithFolder(filename) THEN "outside"
    ELSE LET base == Last(filename)
             rest == Front(filename)
             dir  == Last(rest)
             path == Front(rest)
             plugin == IF dir = "" THEN NoId ELSE Lookup(names, dir)
         IN  IF Len(path) = 1 /\ dir = "plugins" THEN "watch"
             ELSE IF Len(path) # 2 THEN "depth"
             ELSE IF base \in {"manifest.json", ".hotreload", ".git"} THEN "reindex"
             ELSE IF base \notin {"main.js", "styles.css"} THEN "untracked"
             ELSE IF plugin = NoId THEN "reindex"
             ELSE "check"

Route(filename, names) ==
    IF ~StartsWithFolder(filename) THEN "outside"
    ELSE LET base == Last(filename)
             rest == Front(filename)
             dir  == Last(rest)
             path == Front(rest)
             plugin == IF dir = "" THEN NoId ELSE Lookup(names, dir)
         IN  IF Len(path) = 1 /\ dir = "plugins" THEN "watch"
             ELSE IF Len(path) # 2 THEN "depth"
             ELSE IF base \in {"manifest.json", ".hotreload", ".git"} \/ plugin = NoId
                  THEN "reindex"
             ELSE IF base \notin {"main.js", "styles.css"} THEN "untracked"
             ELSE "check"

\* the id checkVersion is called with on the "check" branch
RoutePlugin(filename, names) == Lookup(names, Last(Front(filename)))

----------------------------------------------------------------------------
(* checkVersion                                                            *)

\* a call suspended at `await stat(path)` for file number i; val is <<>> until
\* the host has read the file's stat, then <<mtime>>; owner is <<>> for a call
\* nobody awaits (onFileChange), <<0>> for the startup scan's Promise.all,
\* <<i>> for that of queue slot i
Check(p, i, owner) == [plugin |-> p, i |-> i, owner |-> owner, val |-> <<>>]

CheckPath(c) == ManifestDir(c.plugin) \o <<TrackedFiles[c.i]>>

\* the comparison without statCache.has(path)
ChangedNoHas(cache, path, stat) == stat # cache[path]

\* line 70: is this stat a change against the cache
Changed(cache, path, stat) == cache[path] # NoStat /\ stat # cache[path]

\* a cache that drops the entry of a file it finds absent
CachedOrDropped(cache, path, stat) == [cache EXCEPT ![path] = stat]

\* lines 69-74: the cache after the comparison
Cached(cache, path, stat) == IF stat # NoStat THEN [cache EXCEPT ![path] = stat] ELSE cache

\* line 77: delete this.pluginNames[plugin]
DeleteName(names, plugin) == [names EXCEPT ![plugin] = NoId]

\* the ids the synchronous part of checkVersion finds without a manifest
Gone(ids) == ids \ manifests

RECURSIVE DeleteNames(_, _)
DeleteNames(names, ids) ==
    IF ids = {} THEN names
    ELSE LET p == CHOOSE x \in ids : TRUE
         IN  DeleteNames(DeleteName(names, p), ids \ {p})

\* the calls that reach their first await
Spawned(ids, owner) == SetToBag({Check(p, 1, owner) : p \in ids \cap manifests})

----------------------------------------------------------------------------
(* watch(path)                                                             *)

\* paths of the host's directory tree that are folders right now
IsFolder(path) ==
    \/ path = PluginFolder
    \/ \E p \in manifests : path = ManifestDir(p)

\* line 44: watchNeeded || this.isSymlink(path); the directory of "a" is a
\* symbolic link into the developer's working copy
Symlinks == {ManifestDir("a")}
NeedsWatch(path) == watchNeeded \/ path \in Symlinks

\* line 42: a call on a watched path returns at once, any other call
\* suspends at `await stat(path)`
WatchCall(w, path) == IF watchers[path].on THEN w ELSE [w EXCEPT ![path] = @ + 1]

----------------------------------------------------------------------------
(* getPluginNames                                                          *)

Ids(names) == Range(names) \ {NoId}

\* lines 82-87: from the call to the first `await exists`
ScanBegin ==
    LET ids == SeqOf(manifests)
    IN  IF ids = <<>> THEN [ScanIdle EXCEPT !.pc = "assign"]
        ELSE [todo |-> ids,
              plugins |-> [EmptyNames EXCEPT ![DirName(ids[1])] = ids[1]],
              enabled |-> {},
              pc |-> "exists",
              all |-> manifests]

\* lines 86-90 and the next turn of the loop: `hit` is what exists() gave for
\* the manifest at the head of todo
ScanNext(s, hit) ==
    LET id == Head(s.todo)
        en == IF hit THEN s.enabled \cup {id} ELSE s.enabled
        rest == Tail(s.todo)
    IN  IF rest = <<>>
        THEN [s EXCEPT !.todo = <<>>, !.enabled = en, !.pc = "assign"]
        ELSE [s EXCEPT !.todo = rest, !.enabled = en,
                       !.plugins[DirName(Head(rest))] = Head(rest)]

\* what exists(dir + "/.git") || exists(dir + "/.hotreload") gives
HasMarker(id) == id \in marker /\ id \in manifests

\* the scan as it is kept while it awaits: after the assignments of lines 91-92
\* its locals are dead
ScanKept(s) == IF s.pc = "assign" THEN [ScanIdle EXCEPT !.pc = "checks"] ELSE s

\* the watch() calls of the loop turn that s has just entered
ScanWatch(w, s) == IF s.pc = "exists" THEN WatchCall(w, ManifestDir(Head(s.todo))) ELSE w

\* a scan that assigns the mapping when the loop has ended and leaves the
\* enabled set to a later step
ScanEffectsSplit(s, owner) ==
    /\ watching' = ScanWatch(watching, s)
    /\ IF s.pc = "assign"
       THEN /\ pluginNames' = DeleteNames(s.plugins, Gone(Ids(s.plugins)))
            /\ enabledPlugins' = enabledPlugins
            /\ checks' = checks (+) Spawned(Ids(s.plugins), owner)
            /\ obs' = [ObsNone EXCEPT !.gone = Gone(Ids(s.plugins))]
       ELSE /\ UNCHANGED <<pluginNames, enabledPlugins, checks>>
            /\ obs' = ObsNone

\* the effects of running the scan up to state s: when the loop has ended,
\* lines 91-93 (the two assignments and the synchronous part of every
\* checkVersion that checkVersions starts)
ScanEffects(s, owner) ==
    /\ watching' = ScanWatch(watching, s)
    /\ IF s.pc = "assign"
       THEN /\ pluginNames' = DeleteNames(s.plugins, Gone(Ids(s.plugins)))
            /\ enabledPlugins' = s.enabled
            /\ checks' = checks (+) Spawned(Ids(s.plugins), owner)
            /\ obs' = [ObsNone EXCEPT !.gone = Gone(Ids(s.plugins))]
       ELSE /\ UNCHANGED <<pluginNames, enabledPlugins, checks>>
            /\ obs' = ObsNone

\* a rescan that does not await its version checks
ChecksDoneNoWait(owner) == TRUE

\* Promise.all of checkVersions: every call started for this owner is done
ChecksDone(owner) == \A c \in BagToSet(checks) : c.owner # owner

----------------------------------------------------------------------------
(* Initial state: the plugin object is constructed and onload() has run    *)
(* (the command is registered, the layout is not ready yet).               *)

WatchPaths == {PluginFolder} \cup {PluginFolder \o <<d>> : d \in {"a", "bdir", "zzz"}}

\* the raw events the host delivers
EventPaths ==
    {<<"notes", "main.js">>, <<"cfg", "plugins">>, <<"cfg", "themes", "a", "main.js">>}
    \cup {PluginFolder \o <<d>> : d \in {"a", "zzz"}}
    \cup {PluginFolder \o <<"a", "src", "main.js">>}
    \cup {PluginFolder \o <<d, f>> :
            d \in {"a", "bdir", "zzz"},
            f \in {"manifest.json", ".hotreload", ".git", "main.js", "styles.css", "data.json"}}

\* The environment of one run spends one of these budgets.  Every scenario
\* starts from the same program state; they differ in what the host and the
\* developer do afterwards and in the host state the program only reads.
\*   reload: builds of the tracked files and the raw events they cause
\*   panel:  one build and its raw event, under every state of the settings
\*           dialog and every stored preference
\*   rescan: the command invoked at any time from onload on
\*   recheck: a build and the command, with and without the opt-in marker
\*   router: raw events of every path shape
\*   purge:  uninstall and install, and the raw events they cause
\*   disabled: one build and its raw event, and the user switching an
\*           extension off in the host
Scenarios == {"reload", "panel", "rescan", "recheck", "router", "purge", "disabled"}

Budget(sc) ==
    [ev    |-> IF sc \in {"reload", "router", "purge"} THEN MaxEvents
               ELSE IF sc \in {"panel", "disabled"} THEN MaxEvents - 1 ELSE 0,
     cmd   |-> IF sc = "rescan" THEN MaxCmd
               ELSE IF sc \in {"recheck", "disabled"} THEN MaxCmd - 1 ELSE 0,
     touch |-> IF sc = "reload" THEN MaxTouch
               ELSE IF sc \in {"panel", "recheck", "disabled"} THEN MaxTouch - 1 ELSE 0,
     inst  |-> IF sc = "purge" THEN MaxInstall ELSE 0,
     host  |-> IF sc = "disabled" THEN MaxInstall - 1 ELSE 0]

\* the raw events of a scenario
Events(sc) ==
    IF sc = "router" THEN EventPaths
    ELSE IF sc = "purge" THEN {PluginFolder \o <<d, f>> : d \in {"a", "bdir"},
                                                          f \in {"main.js", "manifest.json"}}
    ELSE {PluginFolder \o <<d, "main.js">> : d \in {"a", "bdir"}}

NoSettings == [loaded |-> FALSE, reopen |-> FALSE, notice |-> FALSE]

Init ==
    /\ scenario \in Scenarios
    /\ budget = Budget(scenario)
    /\ manifests = Plugins
    /\ hostEnabled = Plugins
    /\ loaded = Plugins
    /\ marker \in IF scenario = "recheck" THEN {Plugins, {"a"}} ELSE {Plugins}
    /\ mtime = [c \in CachePaths |->
                  IF c = ManifestDir("b") \o <<"styles.css">> THEN NoStat ELSE 1]
    /\ debugFlag \in IF scenario = "reload" THEN {"null", "0"} ELSE {"null"}
    /\ debug0 = debugFlag
    /\ activeTab \in IF scenario = "panel" THEN {"null", "a"} ELSE {"null"}
    /\ stored \in IF scenario = "panel"
                  THEN {[loaded |-> TRUE, reopen |-> r, notice |-> n] : r, n \in BOOLEAN}
                  ELSE {[loaded |-> TRUE, reopen |-> TRUE, notice |-> TRUE]}
    /\ leading \in BOOLEAN
    /\ watchNeeded \in IF scenario = "router" THEN BOOLEAN ELSE {TRUE}
    \* the host may watch a directory before watch() is ever called on it
    /\ watchers = [w \in WatchPaths |-> [on |-> scenario # "router", starts |-> 0]]
    /\ phase = "init"
    /\ settings = NoSettings
    /\ statCache = EmptyCache
    /\ pluginNames = EmptyNames
    /\ enabledPlugins = {}
    /\ pluginReloaders = {}
    /\ deb = [k \in DebKeys |-> DebIdle]
    /\ tasks = <<>>
    /\ startup = ScanIdle
    /\ checks = EmptyBag
    /\ watching = [w \in WatchPaths |-> 0]
    /\ obs = ObsNone

----------------------------------------------------------------------------
(* onload / onLayoutReady                                                  *)

\* the layout-ready callback starts: getPluginNames() outside the task queue
LayoutReady ==
    /\ phase = "init"
    /\ phase' = "scan"
    /\ LET s == ScanBegin
       IN  /\ startup' = ScanKept(s)
           /\ ScanEffects(s, <<0>>)
    /\ UNCHANGED <<envVars, settings, statCache, pluginReloaders, deb, tasks,
                   budget, scenario, stored, debug0>>

\* exists() of the startup scan returns, or rejects: then the callback ends
\* before loadSettings and before the raw events are subscribed
StartupExists(ok) ==
    /\ startup.pc = "exists"
    /\ IF ok
       THEN LET s == ScanNext(startup, HasMarker(Head(startup.todo)))
            IN  /\ startup' = ScanKept(s)
                /\ ScanEffects(s, <<0>>)
                /\ UNCHANGED phase
       ELSE /\ startup' = ScanIdle
            /\ phase' = "failed"
            /\ obs' = ObsNone
            /\ UNCHANGED <<pluginNames, enabledPlugins, checks, watching>>
    /\ UNCHANGED <<envVars, settings, statCache, pluginReloaders, deb, tasks,
                   budget, scenario, stored, debug0>>

\* await this.checkVersions() of the startup scan is over; loadSettings starts
StartupScanDone ==
    /\ startup.pc = "checks"
    /\ ChecksDone(<<0>>)
    /\ startup' = ScanIdle
    /\ phase' = "settings"
    /\ obs' = ObsNone
    /\ UNCHANGED <<envVars, settings, statCache, pluginNames, enabledPlugins,
                   pluginReloaders, deb, tasks, checks, watching, budget, scenario, stored, debug0>>

\* loadData() returns: settings, the raw-event subscription, watch(plugin folder)
SettingsLoaded ==
    /\ phase = "settings"
    /\ phase' = "ready"
    /\ settings' = stored
    /\ watching' = WatchCall(watching, PluginFolder)
    /\ obs' = ObsNone
    /\ UNCHANGED <<envVars, statCache, pluginNames, enabledPlugins, pluginReloaders,
                   deb, tasks, startup, checks, budget, scenario, stored, debug0>>

\* a watch() call resumes after its stat
WatchDone(path) ==
    /\ watching[path] > 0
    /\ watching' = [watching EXCEPT ![path] = @ - 1]
    /\ watchers' = IF IsFolder(path) /\ NeedsWatch(path)
                   THEN [watchers EXCEPT ![path] = [on |-> TRUE, starts |-> @.starts + 1]]
                   ELSE watchers
    /\ obs' = ObsNone
    /\ UNCHANGED <<manifests, hostEnabled, loaded, marker, mtime, debugFlag,
                   activeTab, leading, watchNeeded, phase, settings, statCache,
                   pluginNames, enabledPlugins, pluginReloaders, deb, tasks, startup,
                   checks, budget, scenario, stored, debug0>>

----------------------------------------------------------------------------
(* The command and the raw file events                                     *)

\* the "scan-for-changes" command: this.reindexPlugins()
Command ==
    /\ budget.cmd > 0
    /\ budget' = [budget EXCEPT !.cmd = @ - 1]
    /\ deb' = DebCallDeb(deb, tasks, Reindex)
    /\ tasks' = DebCallTasks(deb, tasks, Reindex)
    /\ obs' = [ObsNone EXCEPT !.fired = IF DebCallFires(deb, Reindex) THEN {Reindex} ELSE {}]
    /\ UNCHANGED <<envVars, phase, settings, statCache, pluginNames, enabledPlugins,
                   pluginReloaders, startup, checks, watching, scenario, stored, debug0>>

\* onFileChange(filename), up to the first await of what it calls
RawEvent(filename) ==
    /\ phase = "ready"
    /\ budget.ev > 0
    /\ budget' = [budget EXCEPT !.ev = @ - 1]
    /\ LET r == Route(filename, pluginNames)
           plugin == RoutePlugin(filename, pluginNames)
           gone == IF r = "check" THEN Gone({plugin}) ELSE {}
           fires == r = "reindex" /\ DebCallFires(deb, Reindex)
       IN  /\ watching' = IF r = "watch" THEN WatchCall(watching, filename) ELSE watching
           /\ deb' = IF r = "reindex" THEN DebCallDeb(deb, tasks, Reindex) ELSE deb
           /\ tasks' = IF r = "reindex" THEN DebCallTasks(deb, tasks, Reindex) ELSE tasks
           /\ checks' = IF r = "check" THEN checks (+) Spawned({plugin}, <<>>) ELSE checks
           /\ pluginNames' = DeleteNames(pluginNames, gone)
           /\ obs' = [ObsNone EXCEPT !.route = r, !.path = filename, !.gone = gone,
                                     !.fired = IF fires THEN {Reindex} ELSE {}]
    /\ UNCHANGED <<envVars, phase, settings, statCache, enabledPlugins,
                   pluginReloaders, startup, scenario, stored, debug0>>

\* the cooldown timer of debouncer k expires
Timer(k) ==
    /\ deb[k].st = "wait"
    /\ deb' = [deb EXCEPT ![k].st = "idle"]
    /\ tasks' = IF leading THEN tasks ELSE Run(tasks, k)
    /\ obs' = [ObsNone EXCEPT !.fired = IF leading THEN {} ELSE {k}]
    /\ UNCHANGED <<envVars, phase, settings, statCache, pluginNames, enabledPlugins,
                   pluginReloaders, startup, checks, watching, budget, scenario, stored, debug0>>

----------------------------------------------------------------------------
(* checkVersion, from one await to the next                                *)

\* the host reads the stat a suspended call asked for
StatSample(c) ==
    /\ BagIn(c, checks)
    /\ c.val = <<>>
    /\ checks' = (checks (-) SetToBag({c}))
                    (+) SetToBag({[c EXCEPT !.val = <<mtime[CheckPath(c)]>>]})
    /\ obs' = ObsNone
    /\ UNCHANGED <<envVars, phase, settings, statCache, pluginNames, enabledPlugins,
                   pluginReloaders, deb, tasks, startup, watching, budget, scenario, stored, debug0>>

\* requestReload without the test of line 109
RequestsAll(plugin) == TRUE

\* requestReload(plugin), line 109: only for ids opted in
Requests(plugin) == plugin \in enabledPlugins

\* lines 69-74 for the file the call waited for, then the next turn of the
\* loop up to its await, or the end of the call
CheckResume(c) ==
    /\ BagIn(c, checks)
    /\ c.val # <<>>
    /\ LET stat == c.val[1]
           path == CheckPath(c)
           changed == stat # NoStat /\ Changed(statCache, path, stat)
           reload == changed /\ Requests(c.plugin)
       IN  /\ statCache' = Cached(statCache, path, stat)
           /\ pluginReloaders' = IF reload THEN pluginReloaders \cup {c.plugin}
                                 ELSE pluginReloaders
           /\ deb' = IF reload THEN DebCallDeb(deb, tasks, c.plugin) ELSE deb
           /\ tasks' = IF reload THEN DebCallTasks(deb, tasks, c.plugin) ELSE tasks
           /\ checks' = (checks (-) SetToBag({c}))
                           (+) (IF c.i < Len(TrackedFiles)
                                THEN SetToBag({Check(c.plugin, c.i + 1, c.owner)})
                                ELSE EmptyBag)
           /\ obs' = [ObsNone EXCEPT
                        !.cmp = <<[plugin |-> c.plugin, path |-> path, owner |-> c.owner,
                                   had |-> statCache[path], cur |-> stat]>>,
                        !.req = IF changed THEN {c.plugin} ELSE {},
                        !.fired = IF reload /\ DebCallFires(deb, c.plugin)
                                  THEN {c.plugin} ELSE {}]
    /\ UNCHANGED <<envVars, phase, settings, pluginNames, enabledPlugins, startup,
                   watching, budget, scenario, stored, debug0>>

----------------------------------------------------------------------------
(* The task queue runs slot i: the action's synchronous part               *)

\* a reload without the test of line 120
ReloadBeginAlways(task) ==
    [task EXCEPT !.st = "running", !.pc = "disable",
                 !.tab = (activeTab = task.plugin),
                 !.calls = <<"disable">>]

\* lines 117-132 of reload(): the task after the synchronous part
ReloadBegin(task) ==
    IF task.plugin \notin hostEnabled
    THEN [task EXCEPT !.st = "ok"]
    ELSE [task EXCEPT !.st = "running", !.pc = "disable",
                      !.tab = (activeTab = task.plugin),
                      !.calls = <<"disable">>]

TaskStart(i) ==
    /\ i \in 1..Len(tasks)
    /\ CanStart(tasks, i)
    /\ IF tasks[i].kind = "rescan"
       THEN LET s == ScanBegin
            IN  /\ tasks' = [tasks EXCEPT ![i].st = "running", ![i].scan = ScanKept(s)]
                /\ ScanEffects(s, <<i>>)
       ELSE /\ tasks' = [tasks EXCEPT ![i] = ReloadBegin(tasks[i])]
            /\ obs' = ObsNone
            /\ UNCHANGED <<pluginNames, enabledPlugins, checks, watching>>
    /\ UNCHANGED <<envVars, phase, settings, statCache, pluginReloaders, deb,
                   startup, budget, scenario, stored, debug0>>

\* exists() of a queued rescan returns, or rejects: then the slot's promise
\* is rejected
TaskExists(i, ok) ==
    /\ i \in 1..Len(tasks)
    /\ tasks[i].st = "running"
    /\ tasks[i].scan.pc = "exists"
    /\ IF ok
       THEN LET s == ScanNext(tasks[i].scan, HasMarker(Head(tasks[i].scan.todo)))
            IN  /\ tasks' = [tasks EXCEPT ![i].scan = ScanKept(s)]
                /\ ScanEffects(s, <<i>>)
       ELSE /\ tasks' = [tasks EXCEPT ![i].st = "err", ![i].scan = ScanIdle]
            /\ obs' = ObsNone
            /\ UNCHANGED <<pluginNames, enabledPlugins, checks, watching>>
    /\ UNCHANGED <<envVars, phase, settings, statCache, pluginReloaders, deb,
                   startup, budget, scenario, stored, debug0>>

\* await this.checkVersions() of a queued rescan is over: the slot fulfils
TaskScanDone(i) ==
    /\ i \in 1..Len(tasks)
    /\ tasks[i].st = "running"
    /\ tasks[i].scan.pc = "checks"
    /\ ChecksDone(<<i>>)
    /\ tasks' = [tasks EXCEPT ![i].st = "ok", ![i].scan = ScanIdle]
    /\ obs' = ObsNone
    /\ UNCHANGED <<envVars, phase, settings, statCache, pluginNames, enabledPlugins,
                   pluginReloaders, deb, startup, checks, watching, budget, scenario, stored, debug0>>

----------------------------------------------------------------------------
(* reload(plugin), from one await to the next                              *)

\* a reload submitted without .catch: its slot rejects when reload throws
Uncaught(threw) == IF threw THEN "err" ELSE "ok"

\* line 111: this.reload(plugin).catch(console.error): how the slot's promise
\* settles when reload has ended, by returning or by throwing
Caught(threw) == "ok"

\* the restore written after the try block instead of in a finally
FinallyOnSuccess(task, flag, threw) ==
    IF threw THEN [flag |-> flag, restores |-> task.restores]
    ELSE [flag |-> task.old, restores |-> task.restores + 1]

\* lines 147-151: the finally block, entered from the try block whether it
\* ended normally or threw: the debug flag afterwards and the runs of the block
Finally(task, flag, threw) == [flag |-> task.old, restores |-> task.restores + 1]

\* disablePlugin returns (lines 133-140) or rejects (.catch(console.error))
DisableDone(i, ok) ==
    /\ i \in 1..Len(tasks)
    /\ tasks[i].st = "running"
    /\ tasks[i].pc = "disable"
    /\ IF ok
       THEN /\ loaded' = loaded \ {tasks[i].plugin}
            /\ \E tab \in (IF activeTab = tasks[i].plugin
                           THEN {"null", activeTab} ELSE {activeTab}) :
                    activeTab' = tab
            /\ debugFlag' = "1"
            /\ tasks' = [tasks EXCEPT ![i].pc = "enable", ![i].old = debugFlag,
                                      ![i].set = TRUE,
                                      ![i].calls = @ \o <<"debug", "enable">>]
       ELSE /\ tasks' = [tasks EXCEPT ![i].st = Caught(TRUE), ![i].pc = "-",
                                      ![i].calls = @ \o <<"error">>]
            /\ UNCHANGED <<loaded, activeTab, debugFlag>>
    /\ obs' = ObsNone
    /\ UNCHANGED <<manifests, hostEnabled, marker, mtime, leading, watchNeeded,
                   watchers, phase, settings, statCache, pluginNames, enabledPlugins,
                   pluginReloaders, deb, startup, checks, watching, budget, scenario, stored, debug0>>

\* a reopen that forgets whose panel was active before the disable
PanelGoneAny(task, shown) == shown /\ activeTab = "null"

\* line 141 up to the preference: the panel was this extension's, the
\* settings dialog is shown and no panel is active now
PanelGone(task, shown) == task.tab /\ shown /\ activeTab = "null"

\* enablePlugin returns (lines 141-152) or rejects (finally, then
\* .catch(console.error)).  shown: containerEl.isShown(); opens: what
\* openTabById does ("tab", "null" or "throw")
EnableDone(i, ok, shown, opens) ==
    /\ i \in 1..Len(tasks)
    /\ tasks[i].st = "running"
    /\ tasks[i].pc = "enable"
    /\ LET task == tasks[i]
           \* reading this.settings before loadSettings has run throws
           noSettings == ~settings.loaded
           asks == ok /\ PanelGone(task, shown)
           reopen == asks /\ ~noSettings /\ settings.reopen
           threw == \/ ~ok
                    \/ asks /\ noSettings
                    \/ reopen /\ opens = "throw"
           fin == Finally(task, debugFlag, threw)
           panel == IF reopen THEN <<"open">> ELSE <<>>
           out == IF threw THEN <<"error">>
                  ELSE IF noSettings THEN <<"debug", "error">>
                  ELSE IF settings.notice THEN <<"debug", "notice">>
                  ELSE <<"debug">>
       IN  /\ loaded' = IF ok THEN loaded \cup {task.plugin} ELSE loaded
           /\ activeTab' = IF reopen /\ opens = "tab" THEN task.plugin ELSE activeTab
           /\ debugFlag' = fin.flag
           /\ tasks' = [tasks EXCEPT ![i].st = Caught(threw), ![i].pc = "-",
                                     ![i].restores = fin.restores,
                                     ![i].calls = @ \o panel \o out]
           /\ obs' = [ObsNone EXCEPT
                        !.panel = <<[slot |-> i, ok |-> ok, tab |-> task.tab,
                                     shown |-> shown, active |-> activeTab,
                                     opens |-> IF reopen THEN opens ELSE "-"]>>]
    /\ UNCHANGED <<manifests, hostEnabled, marker, mtime, leading, watchNeeded,
                   watchers, phase, settings, statCache, pluginNames, enabledPlugins,
                   pluginReloaders, deb, startup, checks, watching, budget, scenario, stored, debug0>>

----------------------------------------------------------------------------
(* The environment: the developer's builds and the host's installs         *)

PluginOf(path) == CHOOSE p \in Plugins : SubSeq(path, 1, 3) = ManifestDir(p)

\* a tracked file of an installed extension is written
Touch(path, t) ==
    /\ budget.touch > 0
    /\ PluginOf(path) \in manifests
    /\ mtime[path] # t
    /\ mtime' = [mtime EXCEPT ![path] = t]
    /\ budget' = [budget EXCEPT !.touch = @ - 1]
    /\ obs' = ObsNone
    /\ UNCHANGED <<manifests, hostEnabled, loaded, marker, debugFlag, activeTab,
                   leading, watchNeeded, watchers, progVars, scenario, stored, debug0>>

\* the host removes an extension: its manifest and its directory
Uninstall(p) ==
    /\ budget.inst > 0
    /\ p \in manifests
    /\ \A i \in 1..Len(tasks) : tasks[i].st = "running" => tasks[i].plugin # p
    /\ manifests' = manifests \ {p}
    /\ hostEnabled' = hostEnabled \ {p}
    /\ loaded' = loaded \ {p}
    /\ mtime' = [c \in CachePaths |-> IF PluginOf(c) = p THEN NoStat ELSE mtime[c]]
    /\ budget' = [budget EXCEPT !.inst = @ - 1]
    /\ obs' = ObsNone
    /\ UNCHANGED <<marker, debugFlag, activeTab, leading, watchNeeded, watchers,
                   progVars, scenario, stored, debug0>>

\* the host installs and enables an extension; its code bundle has time t
Install(p, t) ==
    /\ budget.inst > 0
    /\ p \notin manifests
    /\ manifests' = manifests \cup {p}
    /\ hostEnabled' = hostEnabled \cup {p}
    /\ loaded' = loaded \cup {p}
    /\ mtime' = [mtime EXCEPT ![ManifestDir(p) \o <<"main.js">>] = t]
    /\ budget' = [budget EXCEPT !.inst = @ - 1]
    /\ obs' = ObsNone
    /\ UNCHANGED <<marker, debugFlag, activeTab, leading, watchNeeded, watchers,
                   progVars, scenario, stored, debug0>>

\* the user switches an extension off in the host's settings
HostDisable(p) ==
    /\ budget.host > 0
    /\ p \in hostEnabled
    /\ \A i \in 1..Len(tasks) : tasks[i].st = "running" => tasks[i].plugin # p
    /\ hostEnabled' = hostEnabled \ {p}
    /\ loaded' = loaded \ {p}
    /\ budget' = [budget EXCEPT !.host = @ - 1]
    /\ obs' = ObsNone
    /\ UNCHANGED <<manifests, marker, mtime, debugFlag, activeTab, leading,
                   watchNeeded, watchers, progVars, scenario, stored, debug0>>

----------------------------------------------------------------------------

Next ==
    \/ LayoutReady
    \/ \E ok \in BOOLEAN : StartupExists(ok)
    \/ StartupScanDone
    \/ SettingsLoaded
    \/ \E path \in WatchPaths : WatchDone(path)
    \/ Command
    \/ \E filename \in Events(scenario) : RawEvent(filename)
    \/ \E k \in DebKeys : Timer(k)
    \/ \E c \in BagToSet(checks) : StatSample(c)
    \/ \E c \in BagToSet(checks) : CheckResume(c)
    \/ \E i \in 1..Len(tasks) : TaskStart(i)
    \/ \E i \in 1..Len(tasks), ok \in BOOLEAN : TaskExists(i, ok)
    \/ \E i \in 1..Len(tasks) : TaskScanDone(i)
    \/ \E i \in 1..Len(tasks), ok \in BOOLEAN : DisableDone(i, ok)
    \/ \E i \in 1..Len(tasks), ok, shown \in BOOLEAN, opens \in {"tab", "null", "throw"} :
          EnableDone(i, ok, shown, opens)
    \/ \E path \in CachePaths, t \in MTimes : Touch(path, t)
    \/ \E p \in Plugins : Uninstall(p)
    \/ \E p \in Plugins, t \in MTimes : Install(p, t)
    \/ \E p \in Plugins : HostDisable(p)

Spec == Init /\ [][Next]_vars

----------------------------------------------------------------------------
(* The queue under fair scheduling: the event loop runs every continuation *)
(* that is ready, and the host's calls (exists, stat, disablePlugin,       *)
(* enablePlugin) terminate, by fulfilling or by rejecting.  The runs are   *)
(* those in which the command and the builds drive the queue.              *)

InitQueue == Init /\ scenario \in {"rescan", "recheck"}

NextQueue ==
    \/ LayoutReady
    \/ \E ok \in BOOLEAN : StartupExists(ok)
    \/ StartupScanDone
    \/ SettingsLoaded
    \/ Command
    \/ \E k \in DebKeys : Timer(k)
    \/ \E c \in BagToSet(checks) : StatSample(c)
    \/ \E c \in BagToSet(checks) : CheckResume(c)
    \/ \E i \in 1..Len(tasks) : TaskStart(i)
    \/ \E i \in 1..Len(tasks), ok \in BOOLEAN : TaskExists(i, ok)
    \/ \E i \in 1..Len(tasks) : TaskScanDone(i)
    \/ \E i \in 1..Len(tasks), ok \in BOOLEAN : DisableDone(i, ok)
    \/ \E i \in 1..Len(tasks), ok, shown \in BOOLEAN, opens \in {"tab", "null", "throw"} :
          EnableDone(i, ok, shown, opens)
    \/ \E path \in CachePaths, t \in MTimes : Touch(path, t)

Fairness ==
    /\ WF_vars(\E i \in 1..Len(tasks) : TaskStart(i))
    /\ WF_vars(\E i \in 1..Len(tasks), ok \in BOOLEAN : TaskExists(i, ok))
    /\ WF_vars(\E i \in 1..Len(tasks) : TaskScanDone(i))
    /\ WF_vars(\E i \in 1..Len(tasks), ok \in BOOLEAN : DisableDone(i, ok))
    /\ WF_vars(\E i \in 1..Len(tasks), ok, shown \in BOOLEAN,
                  opens \in {"tab", "null", "throw"} : EnableDone(i, ok, shown, opens))
    /\ WF_vars(\E c \in BagToSet(checks) : StatSample(c))
    /\ WF_vars(\E c \in BagToSet(checks) : CheckResume(c))

FairSpec == InitQueue /\ [][NextQueue]_vars /\ Fairness

----------------------------------------------------------------------------
(* Properties                                                              *)

Running(i) == tasks[i].st = "running"
Slots == 1..Len(tasks)

\* C1: reloads and queued rescans are mutually exclusive: at most one slot of
\* the task queue is between its start and its settlement, so the host calls
\* of one reload (disable, debug flag, enable) never interleave with another's
C1_MutualExclusion ==
    \A i, j \in Slots : (i # j /\ Running(i)) => ~Running(j)

\* a reload of one extension is between its disable and its enable while a
\* reload of the other extension waits in the queue
C1_Witness ==
    \E i, j \in Slots :
        /\ tasks[i].kind = "reload" /\ Running(i) /\ tasks[i].pc = "enable"
        /\ tasks[j].kind = "reload" /\ tasks[j].st = "queued"
        /\ tasks[i].plugin # tasks[j].plugin

\* C2: the queue is FIFO: a slot has started only if every slot submitted
\* before it has settled (fulfilled or rejected)
C2_Fifo ==
    \A i, j \in Slots : (i < j /\ tasks[j].st # "queued") => Settled(tasks[i])

\* a slot runs right after the slot before it has settled, with a third
\* still waiting behind it
C2_Witness ==
    \E j \in Slots :
        /\ j > 1 /\ j < Len(tasks)
        /\ Running(j) /\ Settled(tasks[j - 1])
        /\ tasks[j + 1].st = "queued"

\* the slots a run can fill: every slot comes from a command, a raw event or
\* a detected build
SlotIds == 1..(MaxEvents + MaxCmd + MaxTouch)

\* no step removes a slot or takes a waiting slot anywhere but to its start
NoCancel ==
    /\ Len(tasks') >= Len(tasks)
    /\ \A i \in Slots :
          /\ tasks'[i].kind = tasks[i].kind
          /\ tasks'[i].plugin = tasks[i].plugin
          /\ tasks[i].st = "queued" => tasks'[i].st \in {"queued", "running", "ok"}

\* C3: the queue makes progress: every submitted slot eventually starts,
\* also behind a rejected slot and also when it was submitted from inside a
\* running rescan, and no step cancels a slot that waits
C3_Progress ==
    /\ \A n \in SlotIds :
          (n <= Len(tasks)) ~> (n <= Len(tasks) /\ tasks[n].st # "queued")
    /\ [][NoCancel]_vars

\* a slot has run to its end behind a rejected rescan
C3_Witness ==
    \E i \in Slots :
        /\ i < Len(tasks)
        /\ tasks[i].kind = "rescan" /\ tasks[i].st = "err"
        /\ tasks[i + 1].st = "ok"

\* a reload that has written the debug flag and not yet restored it
Holding(i) == tasks[i].kind = "reload" /\ Running(i) /\ tasks[i].set

\* C4: the debug flag is restored on every exit path of reload: whenever no
\* reload is between writing and restoring it, the flag has its value from
\* before the first reload, and a reload that has ended ran its restore step
\* exactly once if it wrote the flag and never otherwise
C4_DebugFlagRestored ==
    /\ (\A i \in Slots : ~Holding(i)) => debugFlag = debug0
    /\ \A i \in Slots :
          (tasks[i].kind = "reload" /\ Settled(tasks[i])) =>
              tasks[i].restores = (IF tasks[i].set THEN 1 ELSE 0)

\* a reload whose enable step failed has ended, and the flag is back at a
\* value other than the one the reload wrote
C4_Witness ==
    \E i \in Slots :
        /\ tasks[i].kind = "reload" /\ Settled(tasks[i]) /\ tasks[i].set
        /\ tasks[i].calls = <<"disable", "debug", "enable", "error">>
        /\ debug0 = "0" /\ debugFlag = "0"

\* the comparison the last step made, if it was a checkVersion step
Compared == obs.cmp # <<>>
RealChange(m) == m.cur # NoStat /\ m.had # NoStat /\ m.had # m.cur

\* C6: change detection of checkVersion for each tracked file: a reload is
\* requested if and only if the file exists, the cache held an entry and the
\* cached time differs from the current one; afterwards the cache holds the
\* current stat; an absent file leaves the cache as it was and requests nothing
C6_ChangeDetection ==
    Compared =>
        LET m == obs.cmp[1]
        IN  /\ obs.req = (IF RealChange(m) THEN {m.plugin} ELSE {})
            /\ m.cur # NoStat => statCache[m.path] = m.cur
            /\ m.cur = NoStat => statCache[m.path] = m.had

\* checkVersion has just met a changed time and asked for a reload
C6_Witness ==
    /\ Compared
    /\ RealChange(obs.cmp[1])
    /\ obs.req = {obs.cmp[1].plugin}
    /\ statCache[obs.cmp[1].path] = obs.cmp[1].cur

\* the disable and enable calls of a reload, in order
HostCalls(task) == SelectSeq(task.calls, LAMBDA c : c \in {"disable", "enable"})

\* reloads submitted for p since its debouncer's current window opened
InWindow(p) == Cardinality(TasksOf(tasks, p)) - deb[p].base

\* C7: end-to-end coalescing: whatever the number of changed saves in one
\* cooldown window of an extension, one reload is submitted for it, and a
\* reload makes one disable and then one enable call; a changed time opens or
\* extends the window of an opted-in extension, an unchanged time submits
\* nothing
C7_OneReloadPerBurst ==
    /\ \A p \in Plugins :
          /\ InWindow(p) \in {0, 1}
          /\ (deb[p].st = "idle" /\ deb[p].calls > 0) => InWindow(p) = 1
          /\ (deb[p].st = "wait" /\ leading) => InWindow(p) = 1
    /\ \A i \in Slots :
          tasks[i].kind = "reload" =>
              /\ HostCalls(tasks[i]) \in {<<>>, <<"disable">>, <<"disable", "enable">>}
              /\ (Settled(tasks[i]) /\ tasks[i].calls # <<>> /\ Last(tasks[i].calls) # "error")
                    => HostCalls(tasks[i]) = <<"disable", "enable">>
    /\ Compared =>
          LET m == obs.cmp[1]
          IN  /\ ~RealChange(m) => (obs.req = {} /\ obs.fired = {})
              /\ (RealChange(m) /\ m.plugin \in enabledPlugins) =>
                    (deb[m.plugin].st = "wait" /\ deb[m.plugin].calls >= 1)

\* two changed saves of "a" came in one window, the window is over, and the
\* one reload submitted for "a" has made its disable and enable call
C7_Witness ==
    /\ deb["a"].st = "idle" /\ deb["a"].calls = 2
    /\ \E i \in Slots :
          /\ TasksOf(tasks, "a") = {i}
          /\ Settled(tasks[i])
          /\ HostCalls(tasks[i]) = <<"disable", "enable">>
          /\ "a" \in loaded

\* the branch the path shape calls for, by depth below the extensions root
ShapeRoute(path, names) ==
    LET depth == Len(path) - Len(PluginFolder)
        inside == depth > 0 /\ \A n \in 1..Len(PluginFolder) : path[n] = PluginFolder[n]
    IN  IF ~inside THEN "outside"
        ELSE IF depth = 1 THEN "watch"
        ELSE IF depth # 2 THEN "depth"
        ELSE IF path[Len(path)] \in {"manifest.json", ".hotreload", ".git"} THEN "reindex"
        ELSE IF Lookup(names, path[Len(path) - 1]) = NoId THEN "reindex"
        ELSE IF path[Len(path)] \notin {"main.js", "styles.css"} THEN "untracked"
        ELSE "check"

\* what a raw event of that branch does, and nothing else
RouteEffect(r, path) ==
    LET id == Lookup(pluginNames, path[Len(path) - 1])
    IN  /\ r \in {"outside", "depth", "untracked"} => UNCHANGED progVars
        /\ r = "watch" =>
              /\ watching' = WatchCall(watching, path)
              /\ UNCHANGED <<phase, settings, statCache, pluginNames, enabledPlugins,
                             pluginReloaders, deb, tasks, startup, checks>>
        /\ r = "reindex" =>
              /\ deb'[Reindex].st = "wait"
              /\ deb'[Reindex].calls > (IF deb[Reindex].st = "wait" THEN deb[Reindex].calls - 1 ELSE 0)
              /\ \A p \in Plugins : deb'[p] = deb[p]
              /\ UNCHANGED <<statCache, pluginNames, enabledPlugins, checks, watching>>
        /\ r = "check" =>
              /\ UNCHANGED <<deb, tasks, statCache, enabledPlugins, watching>>
              /\ id \in manifests =>
                    /\ checks' = checks (+) SetToBag({Check(id, 1, <<>>)})
                    /\ pluginNames' = pluginNames
              /\ id \notin manifests => (checks' = checks /\ obs'.gone = {id})

\* C8: onFileChange dispatches by path shape alone, in the stated priority,
\* and every event takes exactly one branch and does only what it calls for
C8_Router ==
    [][obs'.route # "-" =>
          /\ obs'.route = ShapeRoute(obs'.path, pluginNames)
          /\ RouteEffect(obs'.route, obs'.path)]_vars

\* an event for a file that is not tracked, in a directory that maps to no
\* known id, has just been sent to the rescan
C8_Witness ==
    /\ obs.route = "reindex"
    /\ obs.path = PluginFolder \o <<"zzz", "data.json">>
    /\ deb[Reindex].st = "wait"

\* C9 (as claimed): when a queued rescan has completed, the stat cache holds
\* no entry for a tracked file of an extension that the new mapping lacks
C9_StalePurged ==
    [][\A i \in Slots :
          (tasks[i].kind = "rescan" /\ Running(i) /\ tasks'[i].st = "ok") =>
              \A c \in CachePaths :
                  PluginOf(c) \notin Ids(pluginNames') => statCache'[c] = NoStat]_vars

\* C9 (amended): no rescan, and no other step, removes an entry from the stat
\* cache: the entries of an extension that a new scan lacks stay, and a later
\* stat of the same path is compared against them
C9_CacheKept ==
    [][\A c \in CachePaths : statCache[c] # NoStat => statCache'[c] = statCache[c]
                                 \/ (Compared' /\ obs'.cmp[1].path = c
                                        /\ statCache'[c] = obs'.cmp[1].cur
                                        /\ statCache'[c] # NoStat)]_vars

\* a queued rescan has completed, nothing is running, and the cache still
\* holds the time of a file of an extension that is neither installed nor in
\* the new mapping
C9_Witness ==
    /\ \E i \in Slots : tasks[i].kind = "rescan" /\ tasks[i].st = "ok"
    /\ \A i \in Slots : ~Running(i)
    /\ checks = EmptyBag
    /\ \E c \in CachePaths :
          /\ statCache[c] # NoStat
          /\ PluginOf(c) \notin manifests
          /\ PluginOf(c) \notin Ids(pluginNames)

\* C10 (as claimed): when checkVersion has met an id without a manifest, no
\* directory name maps to that id any more and no reload was requested
C10_Purged ==
    obs.gone # {} =>
        /\ \A p \in obs.gone : \A k \in Keys : pluginNames[k] # p
        /\ obs.req = {}
        /\ obs.fired \cap Plugins = {}

----------------------------------------------------------------------------

\* slot i is a reload that this step starts
Starts(i) == tasks[i].kind = "reload" /\ tasks[i].st = "queued" /\ tasks'[i].st # "queued"

\* C11: reload of an extension that is not enabled in the host is a no-op:
\* the step that starts it makes no host call, writes no log line and no
\* notice, leaves the debug flag, the panel and every other host state as
\* they are, and the slot fulfils at once
C11_DisabledNoOp ==
    [][\A i \in Slots :
          (Starts(i) /\ tasks[i].plugin \notin hostEnabled) =>
              /\ tasks'[i].st = "ok"
              /\ tasks'[i].calls = <<>>
              /\ ~tasks'[i].set /\ tasks'[i].restores = 0
              /\ obs' = ObsNone
              /\ UNCHANGED <<envVars, statCache, pluginNames, enabledPlugins, deb>>]_vars

\* a reload of "a", switched off in the host while the reload waited, has
\* ended without any call, and the rescan behind it in the queue has started
C11_Witness ==
    \E i \in Slots :
        /\ tasks[i].kind = "reload" /\ tasks[i].plugin = "a" /\ tasks[i].st = "ok"
        /\ tasks[i].calls = <<>>
        /\ "a" \notin hostEnabled /\ "a" \in manifests
        /\ i < Len(tasks) /\ tasks[i + 1].st # "queued"

----------------------------------------------------------------------------

\* the last step was the end of a reload's enable step
EnableEnded == obs.panel # <<>>
Noticed(task) == "notice" \in Range(task.calls)
Logged(task) == "error" \in Range(task.calls)

\* C12: a failed enable is contained: the extension stays disabled, the
\* error is logged, no notice is emitted and the slot fulfils; no reload
\* slot ever rejects; a notice comes only from a reload whose disable and
\* enable both succeeded
C12_EnableFailureContained ==
    /\ EnableEnded =>
          LET e == obs.panel[1]
              task == tasks[e.slot]
          IN  /\ ~e.ok => /\ task.plugin \notin loaded
                          /\ Last(task.calls) = "error"
                          /\ ~Noticed(task)
                          /\ task.st = "ok"
              /\ Noticed(task) => e.ok
    /\ \A i \in Slots :
          tasks[i].kind = "reload" =>
              /\ tasks[i].st # "err"
              /\ Noticed(tasks[i]) =>
                    /\ HostCalls(tasks[i]) = <<"disable", "enable">>
                    /\ ~Logged(tasks[i])
                    /\ Last(tasks[i].calls) = "notice"

\* the enable step of a reload has just failed, the extension is not
\* running, and a later slot of the queue has since been submitted
C12_Witness ==
    /\ EnableEnded
    /\ ~obs.panel[1].ok
    /\ tasks[obs.panel[1].slot].st = "ok"
    /\ tasks[obs.panel[1].slot].plugin \notin loaded
    /\ obs.panel[1].slot < Len(tasks)

----------------------------------------------------------------------------

\* the reload whose enable step has just ended asked the host to reopen the
\* extension's panel
Reopened == "open" \in Range(tasks[obs.panel[1].slot].calls)
PreferenceOn == settings.loaded /\ settings.reopen

\* C13 (as claimed): in a reload whose enable succeeded the panel is reopened
\* exactly when it was the active one before the disable, no panel is active
\* after the enable and the preference is on
C13_PanelReopened ==
    (EnableEnded /\ obs.panel[1].ok) =>
        (Reopened <=> (obs.panel[1].tab /\ obs.panel[1].active = "null" /\ PreferenceOn))

\* C13 (amended): the panel is reopened exactly when, besides the three
\* conditions, the settings dialog is shown after the enable; the panel is
\* active again (and scrolled) only if the host returned a tab
C13_PanelReopenedIfShown ==
    (EnableEnded /\ obs.panel[1].ok) =>
        /\ Reopened <=> (/\ obs.panel[1].tab
                         /\ obs.panel[1].shown
                         /\ obs.panel[1].active = "null"
                         /\ PreferenceOn)
        /\ Reopened =>
              (activeTab = tasks[obs.panel[1].slot].plugin <=> obs.panel[1].opens = "tab")
        /\ ~Reopened => activeTab = obs.panel[1].active

\* a reload of the extension whose panel was active has just reopened it
C13_Witness ==
    /\ EnableEnded
    /\ obs.panel[1].ok /\ obs.panel[1].tab /\ obs.panel[1].shown
    /\ obs.panel[1].active = "null"
    /\ Reopened
    /\ activeTab = "a"

----------------------------------------------------------------------------

\* the executions of getPluginNames: <<0>> is the one of onLayoutReady,
\* <<i>> the one of queue slot i
Owners == {<<0>>} \cup {<<i>> : i \in Slots}
ScanOf(o) == IF o = <<0>> THEN startup ELSE tasks[o[1]].scan

\* the mapping {directory name -> id} over a set of ids
Full(ids) ==
    [k \in Keys |-> IF \E p \in ids : DirName(p) = k
                    THEN CHOOSE p \in ids : DirName(p) = k ELSE NoId]

\* the ids a scan in its loop has probed for a marker
Probed(s) == s.all \ Range(s.todo)

\* the locals of a scan in its loop: the mapping over the ids met so far,
\* and the probed ids that had a marker
LocalsRight(s) ==
    /\ s.plugins = Full(Probed(s) \cup {Head(s.todo)})
    /\ s.enabled \subseteq Probed(s) \cap marker
    /\ budget.inst = Budget(scenario).inst => s.enabled = Probed(s) \cap marker

\* this step ends the loop of scan o: lines 91-93 run
Assigns(o) ==
    /\ ScanOf(o).pc \in {"idle", "exists"}
    /\ ScanOf(o)'.pc = "checks"

\* C14: a rescan replaces the mapping and the enabled set in one step, both
\* from the locals of the same scan: the mapping over the manifests the scan
\* enumerated (less what the version checks started in the same step delete
\* for ids whose manifest is gone) and the ids whose marker the scan found;
\* no other step changes the enabled set, and the only other change of the
\* mapping is a version check deleting an entry
C14_AtomicReplacement ==
    [][/\ \A o \in Owners : ScanOf(o).pc = "exists" => LocalsRight(ScanOf(o))
       /\ (pluginNames' # pluginNames \/ enabledPlugins' # enabledPlugins) =>
             \/ /\ obs'.route = "check"
                /\ enabledPlugins' = enabledPlugins
                /\ \A k \in Keys : pluginNames'[k] \in {pluginNames[k], NoId}
             \/ \E o \in Owners :
                   LET s == ScanOf(o)
                       all == IF s.pc = "exists" THEN s.all ELSE {}
                       last == IF s.pc = "exists" /\ HasMarker(Head(s.todo))
                               THEN {Head(s.todo)} ELSE {}
                   IN  /\ Assigns(o)
                       /\ enabledPlugins' = s.enabled \cup last
                       /\ \A k \in Keys :
                             pluginNames'[k] =
                                 IF k \in all \ manifests THEN NoId ELSE Full(all)[k]]_vars

\* a queued rescan run after "b" was uninstalled has replaced the mapping
\* and the enabled set of the startup scan, and waits for its version checks
C14_Witness ==
    /\ "b" \notin manifests
    /\ \E i \in Slots : tasks[i].kind = "rescan" /\ Running(i) /\ tasks[i].scan.pc = "checks"
    /\ pluginNames = Full({"a"})
    /\ enabledPlugins = {"a"}

----------------------------------------------------------------------------

\* the version checks of scan o that are in flight, and those for id p
ChecksOf(o) == {c \in BagToSet(checks) : c.owner = o}
CopiesOf(o, p) ==
    LET cs == {c \in ChecksOf(o) : c.plugin = p}
    IN  IF cs = {} THEN 0
        ELSE IF Cardinality(cs) = 1 THEN CopiesIn(CHOOSE c \in cs : TRUE, checks)
        ELSE Cardinality(cs)

\* this step ends scan o: its await of checkVersions() returns
Completes(o) == ScanOf(o).pc = "checks" /\ ScanOf(o)'.pc = "idle"

\* C15: a rescan re-checks everything: the step that replaces the mapping
\* starts one version check for every id of the mapping (an id without
\* manifest takes the deleted branch in that step), a scan never has two
\* checks of one id, each check goes on from the code bundle to the
\* stylesheet, a check of a scan compares only while the scan waits, the
\* scan ends only when none of its checks is left, and a changed time that
\* such a check finds for an opted-in extension reaches its reloader
C15_RescanChecksAll ==
    [][/\ \A o \in Owners :
             /\ \A p \in Plugins : CopiesOf(o, p) <= 1
             /\ ChecksOf(o) # {} => ScanOf(o).pc = "checks"
             /\ Assigns(o) =>
                   LET ids == IF ScanOf(o).pc = "exists" THEN ScanOf(o).all ELSE {}
                   IN  /\ ChecksOf(o)' = {Check(p, 1, o) : p \in ids \cap manifests}
                       /\ \A p \in Plugins : CopiesOf(o, p)' <= 1
                       /\ obs'.gone = ids \ manifests
             /\ Completes(o) =>
                   /\ ChecksOf(o) = {}
                   /\ o # <<0>> => tasks'[o[1]].st = "ok"
       /\ (Compared' /\ obs'.cmp[1].owner # <<>>) =>
             LET m == obs'.cmp[1]
             IN  /\ \E o \in Owners : o = m.owner /\ ScanOf(o).pc = "checks"
                 /\ m.path = ManifestDir(m.plugin) \o <<"main.js">> =>
                       BagIn(Check(m.plugin, 2, m.owner), checks')
                 /\ (RealChange(m) /\ m.plugin \in enabledPlugins) =>
                       (obs'.req = {m.plugin} /\ deb'[m.plugin].st = "wait")]_vars

\* the rescan the command started is waiting for its checks, and the check
\* of "a" has just found the build made since the startup scan and asked
\* for a reload
C15_Witness ==
    /\ Compared
    /\ obs.cmp[1].owner \in {<<i>> : i \in Slots}
    /\ Running(obs.cmp[1].owner[1])
    /\ obs.cmp[1].plugin = "a" /\ RealChange(obs.cmp[1])
    /\ obs.req = {"a"}
    /\ deb["a"].st = "wait"

----------------------------------------------------------------------------

\* requestReload has passed its gate for p at some time: a reloader exists
Gated(p) == p \in pluginReloaders

\* a step of the environment (the host or the developer), not of the program
EnvStep == budget' # budget

\* C16: opt-in gating: a reloader is created and called only by a version
\* check that finds a changed time for an extension that is in the enabled
\* set at that moment; without that no reload of the extension is ever
\* awaited by its debouncer or enqueued, and the program never disables or
\* enables it; a check of an extension outside the enabled set still
\* updates the stat cache
C16_OptInGating ==
    [][/\ \A p \in Plugins :
             /\ (TasksOf(tasks, p) # {} \/ deb[p] # DebIdle) => Gated(p)
             /\ (TasksOf(tasks', p) # TasksOf(tasks, p) \/ deb'[p].calls > deb[p].calls
                   \/ (deb[p].st = "idle" /\ deb'[p].st = "wait")) => Gated(p)'
             /\ (Gated(p)' /\ ~Gated(p)) =>
                   /\ Compared' /\ obs'.cmp[1].plugin = p /\ RealChange(obs'.cmp[1])
                   /\ p \in enabledPlugins
             /\ ((p \in loaded') # (p \in loaded) /\ ~EnvStep) =>
                   \E i \in TasksOf(tasks, p) : Running(i)
       /\ \A p \in Plugins :
             (Compared' /\ obs'.cmp[1].plugin = p /\ p \notin enabledPlugins) =>
                 /\ tasks' = tasks /\ deb' = deb /\ pluginReloaders' = pluginReloaders
                 /\ obs'.fired = {}
                 /\ obs'.cmp[1].cur # NoStat => statCache'[obs'.cmp[1].path] = obs'.cmp[1].cur]_vars

\* a version check has just found a changed time of "b", which has no
\* marker: the cache has the new time and no reload of "b" exists
C16_Witness ==
    /\ Compared
    /\ obs.cmp[1].plugin = "b" /\ RealChange(obs.cmp[1])
    /\ "b" \notin marker /\ "b" \notin enabledPlugins
    /\ statCache[obs.cmp[1].path] = obs.cmp[1].cur
    /\ TasksOf(tasks, "b") = {} /\ deb["b"] = DebIdle /\ ~Gated("b")
    /\ "b" \in loaded

----------------------------------------------------------------------------

\* the cache entry of path c is the time the file has now
UpToDate(c) == statCache[c] # NoStat /\ statCache[c] = mtime[c]

\* C17 (as claimed): a stale stat result never overwrites a newer cached
\* one: a cache entry that holds the file's present time keeps it for as
\* long as the file is not written
C17_NoStaleOverwrite ==
    [][\A c \in CachePaths :
          (UpToDate(c) /\ mtime'[c] = mtime[c]) => statCache'[c] = statCache[c]]_vars

----------------------------------------------------------------------------

\* C18 (as claimed): for every directory path startWatchPath is invoked at
\* most once, however many watch(path) calls are made and in flight
C18_StartedOnce ==
    \A w \in WatchPaths : watchers[w].starts <= 1

----------------------------------------------------------------------------

\* execution o of getPluginNames is between its call and its return
InProgress(o) == ScanOf(o).pc \in {"exists", "checks"}

\* C19 (as claimed): at most one execution of getPluginNames is in progress,
\* the startup scan included, and none is in progress while a reload runs
C19_RescansNeverOverlap ==
    /\ \A o, q \in Owners : (InProgress(o) /\ InProgress(q)) => o = q
    /\ \A i \in Slots :
          (tasks[i].kind = "reload" /\ Running(i)) => \A o \in Owners : ~InProgress(o)

----------------------------------------------------------------------------

\* the last step found a changed time of a tracked file of p, which is in
\* the enabled set and enabled in the host
Detected(p) ==
    /\ Compared /\ obs.cmp[1].plugin = p /\ RealChange(obs.cmp[1])
    /\ p \in enabledPlugins /\ p \in hostEnabled

\* a reload of p is still to come whose enable step has not started: one that
\* waits in the queue or awaits its disable, or one the timer of p's
\* debouncer will submit
Due(p) ==
    \/ \E i \in TasksOf(tasks, p) :
          tasks[i].st = "queued" \/ (Running(i) /\ tasks[i].pc = "disable")
    \/ ~leading /\ deb[p].st = "wait"

\* C20, if debounce fires on the leading edge: when a change is detected a
\* reload is due
C20_DueIfLeading ==
    leading => \A p \in Plugins : Detected(p) => Due(p)

\* C20, if debounce fires when its timer ends: when a change is detected a
\* reload is due
C20_DueIfTrailing ==
    ~leading => \A p \in Plugins : Detected(p) => Due(p)

====
